---- MODULE Spec2Model ----
(***************************************************************************)
(* Model of the piper-tts-webapp voice service: the PiperPythonWrapper     *)
(* object (piper_python_wrapper.py) and the Flask request handlers that    *)
(* drive it (app.py).  Flask's development server runs every request on    *)
(* its own thread, so the handlers interleave at the granularity of their  *)
(* reads and writes of the wrapper's attributes, the wall clock and the    *)
(* static/audio directory.                                                 *)
(***************************************************************************)
EXTENDS Integers, Sequences, FiniteSets, TLC

(* ---------------------------------------------------------------- bounds *)

\* Number of requests (each served on its own thread) in one behaviour.
NThreads == 3

\* Number of requests the server works on at the same time.
MaxInFlight == 2

Threads == 1..NThreads

(* ------------------------------------------------------------ value sets *)

\* Python's None as the value of self.syn_config.
None == "None"

\* Python's None as the value of self.model_path (paths are sequences).
NoPath == <<None>>

\* The .onnx files present under models/.
ModelFiles == { <<"models", "default.onnx">>, <<"models", "other.onnx">> }

\* Directories that exist below the working directory.
Dirs == { <<>>, <<"static">>, <<"static", "audio">>, <<"models">> }

\* The model_path values a load request may carry (as path components).
LoadInputs ==
    { <<>>,
      <<"models", "default.onnx">>,
      <<".", "models", "other.onnx">>,
      <<"does", "not", "exist.onnx">> }

\* SynthesisConfig objects handed to set_syn_config.
Configs == { "cfgA", "cfgB" }

\* api_generate's directory for artifacts.
AudioDir == <<"static", "audio">>

\* Default output file of synthesize_wav_from_string, inside AudioDir.
DefaultOutput == "output.wav"

\* The values int(time.time()) returns while the server runs: whole seconds.
Seconds == { 0, 1 }

\* f"tts_output_{timestamp}.wav"
ArtifactName(ts) == "tts_output_" \o ToString(ts) \o ".wav"

\* Every file name the program can write in AudioDir.
ArtifactNames == { ArtifactName(ts) : ts \in Seconds } \cup { DefaultOutput }

\* A handle is one object returned by PiperVoice.load: the id (the number of
\* the request that loaded it) tells two loads of the same model apart.
\* Python's None as the value of self.voice is the handle with id 0.
NoHandle == [id |-> 0, model |-> <<>>, mode |-> FALSE]

\* A thread that is not serving a request.  path, mode, fname, h, cfg and
\* loaded are the handler's locals; h0, cfg0, cuda, cuda0 and pairs are
\* history: what the wrapper held, and what the request carried, earlier in
\* the request.
Idle ==
    [op |-> "none", pc |-> "idle", path |-> <<>>, mode |-> FALSE,
     fname |-> "", h0 |-> 0, cfg0 |-> None, h |-> 0, cfg |-> None,
     loaded |-> FALSE, cuda |-> FALSE, cuda0 |-> FALSE, pairs |-> {}]

\* A thread whose request has been answered.
Done == [Idle EXCEPT !.pc = "done"]

\* No response has been returned yet.
NoResponse ==
    [op |-> "none", result |-> "none", fname |-> "", path |-> <<>>,
     sent |-> "none", voice_loaded |-> FALSE, cuda_enabled |-> FALSE]

(* ----------------------------------------------------------------- state *)

VARIABLES
    voice,        \* self.voice: None or the current handle
    model_path,   \* self.model_path: None or the path of the last load
    use_cuda,     \* self.use_cuda
    syn_config,   \* self.syn_config
    files,        \* content of each file of static/audio
    now,          \* the second last read from the wall clock
    th,           \* per request thread: operation, position and locals
    resp,         \* the response going out, until the next step is taken
    observed      \* whether the threads keep the history fields h0, cfg0

vars ==
    <<voice, model_path, use_cuda, syn_config, files, now, th, resp, observed>>

\* PiperPythonWrapper.__init__, an empty static/audio and idle threads.
Started ==
    /\ voice = NoHandle
    /\ model_path = NoPath
    /\ use_cuda = FALSE
    /\ syn_config = None
    /\ files = [f \in ArtifactNames |-> "absent"]
    /\ now = 0
    /\ th = [t \in Threads |-> Idle]
    /\ resp = NoResponse

\* The server as started; no history is recorded.
Init ==
    /\ Started
    /\ observed = FALSE

\* The server some time after start: an earlier request, numbered after
\* those of Threads, has loaded models/default.onnx.
Serving ==
    /\ voice = [id |-> NThreads + 1, model |-> <<"models", "default.onnx">>,
                mode |-> FALSE]
    /\ model_path = <<"models", "default.onnx">>
    /\ use_cuda = FALSE
    /\ syn_config = None
    /\ files = [f \in ArtifactNames |-> "absent"]
    /\ now = 0
    /\ th = [t \in Threads |-> Idle]
    /\ resp = NoResponse

\* The server as started or some time after, with the history fields
\* recorded.
InitObserved ==
    /\ Started \/ Serving
    /\ observed = TRUE

(* --------------------------------------------------------------- helpers *)

\* The value of a history field: x when history is recorded.
History(x, none) == IF observed THEN x ELSE none

\* The threads thr after handle v and configuration c have become current
\* together: every synthesize call that has not entered the engine yet
\* adds the pair to its history.
Witnessed(thr, v, c) ==
    [u \in Threads |->
        IF observed /\ thr[u].pc \in {"wave_open", "read_config"}
        THEN [thr[u] EXCEPT !.pairs = @ \cup {<<v, c>>}]
        ELSE thr[u]]

\* is_voice_loaded(): self.voice is not None
is_voice_loaded == voice # NoHandle

\* Path(s): pathlib drops "." components.
PathOf(s) == SelectSeq(s, LAMBDA c : c # ".")

\* The operating system's resolution of a relative path: ".." steps to the
\* parent; a path that climbs above the working directory keeps its "..".
RECURSIVE Norm(_, _)
Norm(done, rest) ==
    IF rest = <<>> THEN done
    ELSE IF Head(rest) = "."
         THEN Norm(done, Tail(rest))
    ELSE IF Head(rest) = ".." /\ done # <<>> /\ done[Len(done)] # ".."
         THEN Norm(SubSeq(done, 1, Len(done) - 1), Tail(rest))
    ELSE Norm(Append(done, Head(rest)), Tail(rest))

Resolve(p) == Norm(<<>>, p)

\* p (resolved) is strictly inside static/audio.
InsideAudioDir(p) ==
    /\ Len(p) > Len(AudioDir)
    /\ SubSeq(p, 1, Len(AudioDir)) = AudioDir

\* Path.exists() against the model files, the directories and static/audio.
Exists(p) ==
    LET r == Resolve(p) IN
    \/ r \in Dirs
    \/ r \in ModelFiles
    \/ \A i \in 1..Len(r) : r[i] = ".."
    \/ /\ Len(r) = 3
       /\ InsideAudioDir(r)
       /\ r[3] \in ArtifactNames
       /\ files[r[3]] # "absent"

\* The requests being worked on.
InFlight == { u \in Threads : th[u].pc \notin {"idle", "done"} }

\* A new request is taken by the lowest-numbered thread that is still idle,
\* while fewer than MaxInFlight requests are being worked on.
Ready(t) ==
    /\ th[t].pc = "idle"
    /\ \A u \in Threads : u < t => th[u].pc # "idle"
    /\ Cardinality(InFlight) < MaxInFlight

\* A handler returns: its thread is finished and its response goes out.
Respond(t, op, res, f, p, c) ==
    /\ th' = [th EXCEPT ![t] = Done]
    /\ resp' = [NoResponse EXCEPT !.op = op, !.result = res, !.fname = f,
                                   !.path = p, !.sent = c]

(* ---------------------------------------------------- /api/load_model *)

\* api_load_model, lines 172-189: the request body is read, the model file
\* is looked up and tts_wrapper.set_use_cuda(use_cuda) is called.
api_load_model(t, body, g) ==
    /\ Ready(t)
    /\ LET p == PathOf(body) IN
       IF body = <<>>
       THEN /\ Respond(t, "load", "NoModelPath", "", <<>>, "none")
            /\ UNCHANGED use_cuda
       ELSE IF ~Exists(p)
       THEN /\ Respond(t, "load", "ModelNotFound", "", <<>>, "none")
            /\ UNCHANGED use_cuda
       ELSE /\ use_cuda' = g
            /\ th' = [th EXCEPT ![t] = [Idle EXCEPT !.op = "load",
                         !.pc = "load_voice", !.path = p, !.cuda = History(g, FALSE),
                         !.cuda0 = History(use_cuda, FALSE)]]
            /\ resp' = NoResponse
    /\ UNCHANGED <<voice, model_path, syn_config, files, now, observed>>

\* request.get_json() (line 173) or data.get (line 175) raises on a body that
\* is not a JSON object; the except clause at 200-202 returns the failure.
api_load_model_bad_json(t) ==
    /\ Ready(t)
    /\ Respond(t, "load", "BadRequest", "", <<>>, "none")
    /\ UNCHANGED <<voice, model_path, use_cuda, syn_config, files, now, observed>>

\* Variant of load_voice_call that drops the old voice before loading.
load_voice_call_unloading(t) ==
    /\ th[t].pc = "load_voice"
    /\ voice' = NoHandle
    /\ th' = [th EXCEPT ![t].pc = "PiperVoice_load", ![t].mode = use_cuda]
    /\ resp' = NoResponse
    /\ UNCHANGED <<model_path, use_cuda, syn_config, files, now, observed>>

\* load_voice calls PiperVoice.load with use_cuda = self.use_cuda.
load_voice_call(t) ==
    /\ th[t].pc = "load_voice"
    /\ th' = [th EXCEPT ![t].pc = "PiperVoice_load", ![t].mode = use_cuda]
    /\ resp' = NoResponse
    /\ UNCHANGED <<voice, model_path, use_cuda, syn_config, files, now, observed>>

\* Variant of load_voice_raise that clears the wrapper when the load fails.
load_voice_raise_clearing(t) ==
    /\ th[t].pc = "PiperVoice_load"
    /\ voice' = NoHandle
    /\ model_path' = NoPath
    /\ Respond(t, "load", "EngineLoadFailed", "", <<>>, "none")
    /\ UNCHANGED <<use_cuda, syn_config, files, now, observed>>

\* PiperVoice.load raises and api_load_model returns the failure.
load_voice_raise(t) ==
    /\ th[t].pc = "PiperVoice_load"
    /\ Respond(t, "load", "EngineLoadFailed", "", <<>>, "none")
    /\ UNCHANGED <<voice, model_path, use_cuda, syn_config, files, now, observed>>

\* PiperVoice.load returns a new handle and load_voice stores it:
\* self.voice = voice.
load_voice_assign(t) ==
    /\ th[t].pc = "PiperVoice_load"
    /\ voice' = [id |-> t, model |-> th[t].path, mode |-> th[t].mode]
    /\ th' = Witnessed([th EXCEPT ![t].pc = "assign_model_path",
                                  ![t].mode = FALSE, ![t].cuda = FALSE,
                                  ![t].cuda0 = FALSE], t, syn_config)
    /\ resp' = NoResponse
    /\ UNCHANGED <<model_path, use_cuda, syn_config, files, now, observed>>

\* Variant of load_assign_model_path that forgets to store the path.
load_assign_model_path_forgotten(t) ==
    /\ th[t].pc = "assign_model_path"
    /\ Respond(t, "load", "LoadOk", "", <<>>, "none")
    /\ UNCHANGED <<voice, model_path, use_cuda, syn_config, files, now, observed>>

\* self.model_path = str(model_path); api_load_model returns success.
load_assign_model_path(t) ==
    /\ th[t].pc = "assign_model_path"
    /\ model_path' = th[t].path
    /\ Respond(t, "load", "LoadOk", "", <<>>, "none")
    /\ UNCHANGED <<voice, use_cuda, syn_config, files, now, observed>>

(* ------------------------------------------ synthesize_wav_from_string *)

\* Thread u holds file f open for writing (inside the with-block).
HasOpen(u, f) ==
    /\ th[u].pc \in {"read_config", "synthesize_wav"}
    /\ th[u].fname = f

\* Variant of NoVoice that lets every call through.
NoVoice_unchecked(v) == FALSE

\* if self.voice is None: raise ValueError
NoVoice(v) == v = NoHandle

\* wave.open(path, "wb") creates or truncates the file; two writers of one
\* file garble it.
Opened(t, f) ==
    IF \E u \in Threads \ {t} : HasOpen(u, f) THEN "corrupt" ELSE "partial"

\* The with-block closes the file: only a writer that ran alone and to the
\* end leaves a complete WAV file; the file stays in place either way.
Closed(content, ok) ==
    IF ok /\ content = "partial" THEN "complete" ELSE content

\* Line 135, for a call by op that writes file f: the check of self.voice.
\* pairs starts the history of the (handle, configuration) pairs current
\* during the call; h0 and cfg0 record the handle (a thread holds a handle
\* by reference: its id) and the configuration at the call's start.
SynthCheck(t, f, op) ==
    IF NoVoice(voice)
    THEN Respond(t, op, "NoVoiceLoaded", f, <<>>, "none")
    ELSE /\ th' = [th EXCEPT ![t] = [Idle EXCEPT !.op = op,
                      !.pc = "wave_open", !.fname = f, !.h0 = History(voice.id, 0),
                      !.cfg0 = History(syn_config, None),
                      !.pairs = History({<<voice.id, syn_config>>}, {})]]
         /\ resp' = NoResponse

\* A direct call of the wrapper, with the default output path.
synthesize_wav_from_string(t) ==
    /\ Ready(t)
    /\ SynthCheck(t, DefaultOutput, "synth")
    /\ UNCHANGED <<voice, model_path, use_cuda, syn_config, files, now, observed>>

\* The same check when api_generate makes the call.
synth_check(t) ==
    /\ th[t].pc = "synth_check"
    /\ SynthCheck(t, th[t].fname, "generate")
    /\ UNCHANGED <<voice, model_path, use_cuda, syn_config, files, now, observed>>

\* Variant of wave_open that waits while a load holds the wrapper.
wave_open_locked(t) ==
    /\ th[t].pc = "wave_open"
    /\ \A u \in Threads : th[u].pc \notin {"PiperVoice_load", "assign_model_path"}
    /\ files' = [files EXCEPT ![th[t].fname] = Opened(t, th[t].fname)]
    /\ th' = [th EXCEPT ![t].pc = "read_config", ![t].h = voice.id,
                        ![t].h0 = 0]
    /\ resp' = NoResponse
    /\ UNCHANGED <<voice, model_path, use_cuda, syn_config, now, observed>>

\* Lines 143-144: wave.open(...), then self.voice is read for the call.
wave_open(t) ==
    /\ th[t].pc = "wave_open"
    /\ files' = [files EXCEPT ![th[t].fname] = Opened(t, th[t].fname)]
    /\ th' = [th EXCEPT ![t].pc = "read_config", ![t].h = voice.id,
                        ![t].h0 = 0]
    /\ resp' = NoResponse
    /\ UNCHANGED <<voice, model_path, use_cuda, syn_config, now, observed>>

\* Line 147: syn_config=self.syn_config is read and the engine is entered.
read_config(t) ==
    /\ th[t].pc = "read_config"
    /\ th' = [th EXCEPT ![t].pc = "synthesize_wav", ![t].cfg = syn_config,
                        ![t].cfg0 = None, ![t].pairs = {}]
    /\ resp' = NoResponse
    /\ UNCHANGED <<voice, model_path, use_cuda, syn_config, files, now, observed>>

\* voice.synthesize_wav returns; the with-block closes the file.
synthesize_wav_ok(t) ==
    /\ th[t].pc = "synthesize_wav"
    /\ files' = [files EXCEPT ![th[t].fname] = Closed(@, TRUE)]
    /\ IF th[t].op = "generate"
       THEN /\ th' = [th EXCEPT ![t] = [Idle EXCEPT !.op = "generate",
                         !.pc = "stat", !.fname = th[t].fname]]
            /\ resp' = NoResponse
       ELSE Respond(t, "synth", "SynthOk", th[t].fname, <<>>, "none")
    /\ UNCHANGED <<voice, model_path, use_cuda, syn_config, now, observed>>

\* Variant of synthesize_wav_raise whose exception api_generate does not
\* catch: the server's 500 handler answers.
synthesize_wav_raise_uncaught(t) ==
    /\ th[t].pc = "synthesize_wav"
    /\ files' = [files EXCEPT ![th[t].fname] = Closed(@, FALSE)]
    /\ Respond(t, th[t].op, "InternalServerError", th[t].fname, <<>>, "none")
    /\ UNCHANGED <<voice, model_path, use_cuda, syn_config, now, observed>>

\* voice.synthesize_wav raises; the with-block closes the file and the
\* exception is re-raised (and caught by api_generate).
synthesize_wav_raise(t) ==
    /\ th[t].pc = "synthesize_wav"
    /\ files' = [files EXCEPT ![th[t].fname] = Closed(@, FALSE)]
    /\ Respond(t, th[t].op, "EngineSynthesisFailed", th[t].fname, <<>>, "none")
    /\ UNCHANGED <<voice, model_path, use_cuda, syn_config, now, observed>>

(* ------------------------------------------------------ /api/generate *)

\* request.get_json() (line 237) or data.get('text', '').strip() (line 238)
\* raises on a body that is not a JSON object with a string text, before the
\* voice check; the except clause at 263-265 returns the failure.
api_generate_bad_json(t) ==
    /\ Ready(t)
    /\ Respond(t, "generate", "BadRequest", "", <<>>, "none")
    /\ UNCHANGED <<voice, model_path, use_cuda, syn_config, files, now, observed>>

\* api_generate, lines 236-246: the voice check, then the file name from
\* the clock, which shows the second it showed last or a later one.
api_generate(t) ==
    /\ Ready(t)
    /\ IF ~is_voice_loaded
       THEN /\ Respond(t, "generate", "NoVoiceLoaded", "", <<>>, "none")
            /\ UNCHANGED now
       ELSE /\ \E ts \in { n \in Seconds : n >= now } :
                  /\ now' = ts
                  /\ th' = [th EXCEPT ![t] = [Idle EXCEPT !.op = "generate",
                                !.pc = "synth_check",
                                !.fname = ArtifactName(ts)]]
            /\ resp' = NoResponse
    /\ UNCHANGED <<voice, model_path, use_cuda, syn_config, files, observed>>

\* Lines 252-261: output_path.stat() and the success response.
generate_stat(t) ==
    /\ th[t].pc = "stat"
    /\ IF files[th[t].fname] = "absent"
       THEN Respond(t, "generate", "ArtifactStatFailed", th[t].fname, <<>>,
                    "none")
       ELSE Respond(t, "generate", "GenerateOk", th[t].fname, <<>>, "none")
    /\ UNCHANGED <<voice, model_path, use_cuda, syn_config, files, now, observed>>

(* ------------------------------------------------------ set_syn_config *)

\* self.syn_config = syn_config
set_syn_config(t, c) ==
    /\ Ready(t)
    /\ syn_config' = c
    /\ th' = Witnessed([th EXCEPT ![t] = Done], voice.id, c)
    /\ resp' = [NoResponse EXCEPT !.op = "config", !.result = "ConfigOk"]
    /\ UNCHANGED <<voice, model_path, use_cuda, files, now, observed>>

(* ----------------------------------------------------------- /api/status *)

\* api_status, line 120: "voice_loaded": tts_wrapper.is_voice_loaded()
api_status(t) ==
    /\ Ready(t)
    /\ th' = [th EXCEPT ![t] = [Idle EXCEPT !.op = "status",
                                            !.pc = "status_model_path",
                                            !.loaded = is_voice_loaded]]
    /\ resp' = NoResponse
    /\ UNCHANGED <<voice, model_path, use_cuda, syn_config, files, now, observed>>

\* line 121: "model_path": tts_wrapper.model_path
status_model_path(t) ==
    /\ th[t].pc = "status_model_path"
    /\ th' = [th EXCEPT ![t].pc = "status_cuda", ![t].path = model_path]
    /\ resp' = NoResponse
    /\ UNCHANGED <<voice, model_path, use_cuda, syn_config, files, now, observed>>

\* The object api_status returns, lines 119-124: the values as read.
StatusJson(loaded, path, cuda) ==
    [NoResponse EXCEPT !.op = "status", !.result = "StatusOk",
                       !.voice_loaded = loaded, !.path = path,
                       !.cuda_enabled = cuda]

\* line 123: "cuda_enabled": tts_wrapper.get_use_cuda(), and the return.
status_cuda(t) ==
    /\ th[t].pc = "status_cuda"
    /\ th' = [th EXCEPT ![t] = Done]
    /\ resp' = StatusJson(th[t].loaded, th[t].path, use_cuda)
    /\ UNCHANGED <<voice, model_path, use_cuda, syn_config, files, now, observed>>

(* -------------------------------------------------------- set_use_cuda *)

\* Variant of set_use_cuda that also switches the loaded handle's mode.
set_use_cuda_retroactive(t, g) ==
    /\ Ready(t)
    /\ use_cuda' = g
    /\ voice' = IF is_voice_loaded THEN [voice EXCEPT !.mode = g] ELSE voice
    /\ Respond(t, "cuda", "CudaOk", "", <<>>, "none")
    /\ UNCHANGED <<model_path, syn_config, files, now, observed>>

\* A direct call of the wrapper: self.use_cuda = use_cuda
set_use_cuda(t, g) ==
    /\ Ready(t)
    /\ use_cuda' = g
    /\ Respond(t, "cuda", "CudaOk", "", <<>>, "none")
    /\ UNCHANGED <<voice, model_path, syn_config, files, now, observed>>

(* ------------------------------------------------------ /audio/<filename> *)

\* The names requested under /audio/, as their "/"-separated components.
ServeInputs ==
    { <<ArtifactName(0)>>, <<"..">>,
      <<"..", "..", "models", "default.onnx">> }

\* The route's <filename> converter matches exactly one component.
RouteMatches(name) == Len(name) = 1

\* file_path = Path("static/audio") / filename
FilePath(name) == AudioDir \o name

\* What send_file finds at a path that exists.
Content(p) ==
    LET r == Resolve(p) IN
    IF Len(r) = 3 /\ InsideAudioDir(r) /\ r[3] \in ArtifactNames
    THEN files[r[3]]
    ELSE IF r \in ModelFiles THEN "model" ELSE "directory"

\* serve_audio: the existence check and send_file.
serve_audio(t, name) ==
    /\ Ready(t)
    /\ LET p == FilePath(name) IN
       IF ~RouteMatches(name)
       THEN Respond(t, "serve", "NoRoute", "", name, "none")
       ELSE IF ~Exists(p)
       THEN Respond(t, "serve", "AudioNotFound", "", name, "none")
       ELSE IF Content(p) = "directory"
       THEN Respond(t, "serve", "SendFileError", "", name, "none")
       ELSE Respond(t, "serve", "Served", "", name, Content(p))
    /\ UNCHANGED <<voice, model_path, use_cuda, syn_config, files, now, observed>>

Next ==
    \/ \E t \in Threads, body \in LoadInputs, g \in BOOLEAN :
          api_load_model(t, body, g)
    \/ \E t \in Threads : api_load_model_bad_json(t)
    \/ \E t \in Threads : load_voice_call(t)
    \/ \E t \in Threads : load_voice_raise(t)
    \/ \E t \in Threads : load_voice_assign(t)
    \/ \E t \in Threads : load_assign_model_path(t)
    \/ \E t \in Threads : synthesize_wav_from_string(t)
    \/ \E t \in Threads : api_generate(t)
    \/ \E t \in Threads : api_generate_bad_json(t)
    \/ \E t \in Threads : synth_check(t)
    \/ \E t \in Threads : wave_open(t)
    \/ \E t \in Threads : read_config(t)
    \/ \E t \in Threads : synthesize_wav_ok(t)
    \/ \E t \in Threads : synthesize_wav_raise(t)
    \/ \E t \in Threads : generate_stat(t)
    \/ \E t \in Threads, c \in Configs : set_syn_config(t, c)
    \/ \E t \in Threads, g \in BOOLEAN : set_use_cuda(t, g)
    \/ \E t \in Threads : api_status(t)
    \/ \E t \in Threads : status_model_path(t)
    \/ \E t \in Threads : status_cuda(t)
    \/ \E t \in Threads, name \in ServeInputs : serve_audio(t, name)

Spec == Init /\ [][Next]_vars

\* The engine returns to thread t: PiperVoice.load or voice.synthesize_wav
\* ends, with a result or an exception.
EngineReturns(t) ==
    \/ load_voice_raise(t)
    \/ load_voice_assign(t)
    \/ synthesize_wav_ok(t)
    \/ synthesize_wav_raise(t)

\* The steps of thread t that are the handler's own code.
Scheduled(t) ==
    \/ load_voice_call(t)
    \/ load_assign_model_path(t)
    \/ synth_check(t)
    \/ wave_open(t)
    \/ read_config(t)
    \/ generate_stat(t)
    \/ status_model_path(t)
    \/ status_cuda(t)

\* The server's threads are scheduled fairly: a thread that can run its
\* handler's next step does so in the end. How long the engine takes is not
\* the scheduler's matter.
FairSpec == Spec /\ \A t \in Threads : WF_vars(Scheduled(t))

\* The same program with the history fields recorded.
SpecObserved == InitObserved /\ [][Next]_vars

\* The steps by which thread t goes on with the request it is serving.
Continue(t) ==
    \/ load_voice_call(t)
    \/ load_voice_raise(t)
    \/ load_voice_assign(t)
    \/ load_assign_model_path(t)
    \/ synth_check(t)
    \/ wave_open(t)
    \/ read_config(t)
    \/ synthesize_wav_ok(t)
    \/ synthesize_wav_raise(t)
    \/ generate_stat(t)
    \/ status_model_path(t)
    \/ status_cuda(t)

(* ------------------------------------------------------------ properties *)

\* Thread t finishes a load with a failure in this step: the model file is
\* missing or no path was given (from idle), or PiperVoice.load raised.
LoadFails(t) ==
    /\ th[t].pc \in {"idle", "PiperVoice_load"}
    /\ th'[t].pc = "done"
    /\ resp'.op = "load"
    /\ resp'.result # "LoadOk"

\* Thread t takes a step of a load that comes before PiperVoice.load returns.
LoadBeforeResult(t) ==
    /\ th'[t] # th[t]
    /\ th'[t].op = "load"
    /\ th'[t].pc \in {"load_voice", "PiperVoice_load"}

\* PiperVoice.load returns a handle to thread t in this step.
LoadSucceeds(t) ==
    /\ th[t].pc = "PiperVoice_load"
    /\ th'[t].pc = "assign_model_path"

\* C1: while no load has succeeded (no voice is loaded), every synthesize
\* call, direct or through /api/generate (a request whose body could be read),
\* has ended in NoVoiceLoaded, none is past its check, and no file of
\* static/audio has been created or truncated.
C1_NoVoiceNoWrite ==
    ~is_voice_loaded =>
        /\ \A f \in ArtifactNames : files[f] = "absent"
        /\ \A t \in Threads : th[t].op \notin {"generate", "synth"}
        /\ (resp.op \in {"generate", "synth"} /\ resp.result # "BadRequest") =>
               resp.result = "NoVoiceLoaded"

\* A direct synthesize call was refused while nothing is loaded.
C1_Witness ==
    /\ ~is_voice_loaded
    /\ resp.op = "synth"
    /\ resp.result = "NoVoiceLoaded"

\* C2: no step of a load that fails (the start that finds the model file
\* missing, the call of the engine, the engine raising) changes self.voice,
\* self.model_path or is_voice_loaded, whatever was loaded before.
C2_FailedLoadKeepsState ==
    [][\A t \in Threads :
          (LoadFails(t) \/ LoadBeforeResult(t)) =>
              /\ voice' = voice
              /\ model_path' = model_path
              /\ is_voice_loaded' = is_voice_loaded]_vars

\* The engine failed to load a model while another model stays loaded.
C2_Witness ==
    /\ resp.op = "load"
    /\ resp.result = "EngineLoadFailed"
    /\ is_voice_loaded
    /\ model_path = voice.model

\* C3: a generate request is given a file name that no earlier request wrote
\* and no request being worked on holds.
C3_DistinctFilenames ==
    [][\A t \in Threads :
          (th[t].pc = "idle" /\ th'[t].pc = "synth_check") =>
              /\ files[th'[t].fname] = "absent"
              /\ \A u \in Threads \ {t} : th[u].fname # th'[t].fname]_vars

\* C4: self.voice is None or one handle made by a load request;
\* is_voice_loaded is false at the start, becomes true at a successful load
\* and at no other step, and never becomes false again.
C4_LoadedIsMonotone ==
    /\ ~is_voice_loaded
    /\ [][/\ voice' = NoHandle \/ voice'.id \in Threads
          /\ is_voice_loaded => is_voice_loaded'
          /\ \A t \in Threads : LoadSucceeds(t) => is_voice_loaded'
          /\ (~is_voice_loaded /\ is_voice_loaded') =>
                 \E t \in Threads : LoadSucceeds(t)]_vars

\* A load found its model file missing after another load had succeeded.
C4_Witness ==
    /\ resp.op = "load"
    /\ resp.result = "ModelNotFound"
    /\ is_voice_loaded

\* C5: when a load of path p returns success, a voice is loaded and
\* self.model_path is p; when the engine call of a synthesize succeeds, the
\* call returns success and its output file exists at that moment.
C5_LoadThenSynthesize ==
    [][\A t \in Threads :
          /\ (th[t].pc = "assign_model_path" /\ th'[t].pc = "done") =>
                 /\ resp'.result = "LoadOk"
                 /\ is_voice_loaded'
                 /\ model_path' = th[t].path
          /\ (th[t].pc = "synthesize_wav" /\ th'[t].pc = "done"
                  /\ resp'.result # "EngineSynthesisFailed") =>
                 /\ resp'.result = "SynthOk"
                 /\ files'[th[t].fname] # "absent"
          /\ (th[t].pc = "stat" /\ th'[t].pc = "done") =>
                 /\ resp'.result = "GenerateOk"
                 /\ files'[th[t].fname] # "absent"]_vars

\* A generate request succeeded on the model loaded last and left a
\* complete file.
C5_Witness ==
    /\ resp.result = "GenerateOk"
    /\ files[resp.fname] = "complete"
    /\ model_path = voice.model

\* C6: when the engine fails in a synthesize call, no file is at the call's
\* output path when the call returns.
C6_NoFileAfterEngineFailure ==
    [][\A t \in Threads :
          (th[t].pc = "synthesize_wav" /\ th'[t].pc = "done"
              /\ resp'.result = "EngineSynthesisFailed") =>
              files'[th[t].fname] = "absent"]_vars

\* C7: every file serve_audio has sent was a complete artifact when it was
\* sent.
C7_ServedFilesAreComplete ==
    (resp.op = "serve" /\ resp.result = "Served") => resp.sent = "complete"

\* C8: a requested name whose path resolves outside static/audio is turned
\* down as not found; its path is never found to exist and handed to
\* send_file.
C8_ServeStaysInsideAudioDir ==
    (resp.op = "serve" /\ ~InsideAudioDir(Resolve(FilePath(resp.path)))) =>
        resp.result \in {"NoRoute", "AudioNotFound"}

\* C9: the configuration a synthesize call passes to the engine is the one
\* that was current when the call began.
C9_ConfigCapturedAtStart ==
    [][\A t \in Threads :
          (th[t].pc = "read_config" /\ th'[t].pc = "synthesize_wav") =>
              th'[t].cfg = th[t].cfg0]_vars

\* C10: the handle a synthesize call invokes the engine on is the handle
\* that passed its voice-loaded check.
C10_HandleCapturedAtCheck ==
    [][\A t \in Threads :
          (th[t].pc = "wave_open" /\ th'[t].pc = "read_config") =>
              th'[t].h = th[t].h0]_vars

\* C11: a step that sets the acceleration preference (a direct set_use_cuda
\* or the one api_load_model makes) leaves self.voice, the handle and the
\* mode it was loaded with, as it was; self.voice changes only when a load
\* succeeds, and the new handle has the mode that load read.
C11_PreferenceNotRetroactive ==
    [][/\ \A t \in Threads :
             (th[t].pc = "idle" /\ th'[t] # th[t]
                 /\ (resp'.op = "cuda" \/ th'[t].pc = "load_voice")) =>
                 voice' = voice
       /\ voice' # voice =>
             \E t \in Threads : LoadSucceeds(t) /\ voice'.mode = th[t].mode]_vars

\* The preference was set to GPU while a handle loaded for CPU is current.
C11_Witness ==
    /\ resp.op = "cuda"
    /\ use_cuda
    /\ is_voice_loaded
    /\ ~voice.mode

\* C12: the status object reports the state it is returned in: voice_loaded
\* is true iff a handle is set, cuda_enabled is the stored preference, and
\* model_path is the current model's path, the empty string while no model
\* is loaded.
C12_StatusReportsState ==
    [][\A t \in Threads :
          (th[t].pc = "status_cuda" /\ th'[t].pc = "done") =>
              /\ resp'.voice_loaded = is_voice_loaded
              /\ resp'.cuda_enabled = use_cuda
              /\ resp'.path = IF is_voice_loaded THEN model_path ELSE <<>>]_vars

\* The results a load or generate request returns as {"success": ...}.
Successes == { "LoadOk", "GenerateOk" }

Failures ==
    { "NoModelPath", "ModelNotFound", "EngineLoadFailed", "NoVoiceLoaded",
      "EngineSynthesisFailed", "ArtifactStatFailed", "BadRequest" }

\* C13: every answer of a load or generate request is an explicit success or
\* failure, never the server's answer to an uncaught exception; a request
\* that has not returned yet has a step to take, and after a failure a free
\* thread takes the next load, generate or status request.
C13_ExplicitResults ==
    /\ resp.op \in {"load", "generate"} => resp.result \in Successes \cup Failures
    /\ \A t \in InFlight : ENABLED Continue(t)
    /\ (resp.result \in Failures /\ Cardinality(InFlight) < MaxInFlight) =>
           \A t \in Threads :
               (th[t].pc = "idle" /\ \A u \in Threads : u < t => th[u].pc # "idle")
                   => /\ ENABLED api_generate(t)
                      /\ ENABLED api_status(t)
                      /\ \A body \in LoadInputs : ENABLED api_load_model(t, body, FALSE)

\* The engine failed a generate request while a voice is loaded, and the
\* request was answered with that failure.
C13_Witness ==
    /\ resp.op = "generate"
    /\ resp.result = "EngineSynthesisFailed"
    /\ is_voice_loaded
    /\ \E t \in Threads : th[t].pc = "idle"

\* C14: the handle a synthesize call read at line 144 and the configuration
\* it reads at line 147, which together go to the engine, were current
\* together in some state since the call began.
C14_PairWasCurrent ==
    [][\A t \in Threads :
          (th[t].pc = "read_config" /\ th'[t].pc = "synthesize_wav") =>
              <<th[t].h, syn_config>> \in th[t].pairs]_vars

\* The threads inside load_voice between its first read of the wrapper
\* (self.use_cuda, line 60) and its last write (self.model_path, line 64).
\* set_syn_config and set_use_cuda are one store each and take one step.
Mutating ==
    { t \in Threads : th[t].pc \in {"PiperVoice_load", "assign_model_path"} }

\* C15: at most one mutation of the wrapper is between its first read and
\* its last write at any time.
C15_MutationsExclusive == Cardinality(Mutating) <= 1

\* C16: whenever a voice is loaded, self.model_path is the path of the model
\* file the current handle was loaded from.
C16_PathNamesCurrentModel == is_voice_loaded => model_path = voice.model

\* C17: the handle a load request installs was loaded by the engine with the
\* use_cuda value that request carried (the value its success response
\* returns as cuda_enabled).
C17_LoadsWithOwnPreference ==
    [][\A t \in Threads : LoadSucceeds(t) => voice'.mode = th[t].cuda]_vars

\* C18: when a load request returns a failure, self.use_cuda (what the status
\* query reports as cuda_enabled) is what it was before the request.
C18_FailedLoadKeepsPreference ==
    [][\A t \in Threads :
          LoadFails(t) =>
              use_cuda' = IF th[t].pc = "idle" THEN use_cuda ELSE th[t].cuda0]_vars

\* C19: a request whose own engine call returns is answered in the end,
\* whether or not the engine calls of the other requests ever return: a
\* synthesize call completes while a load stays inside PiperVoice.load, a
\* load completes while a synthesize call stays inside voice.synthesize_wav,
\* and when every engine call returns every started request returns.
C19_NoRequestWaitsForAnother ==
    \A t \in Threads :
        WF_vars(EngineReturns(t)) => (t \in InFlight ~> th[t].pc = "done")

\* A synthesize call has just returned its audio while a load is still
\* inside PiperVoice.load.
C19_Witness ==
    /\ resp.result \in {"SynthOk", "GenerateOk"}
    /\ \E u \in Threads : th[u].pc = "PiperVoice_load"

====
